---------------------------- MODULE Spec2Model ----------------------------
(***************************************************************************)
(* Model of tools/extract_wiki_text.py: the clean_text rewrite pipeline    *)
(* and the extract_articles event loop over an incremental XML parser.     *)
(* Strings are sequences of one-character strings.                         *)
(***************************************************************************)
EXTENDS Integers, Sequences, FiniteSets, TLC

(***************************************************************************)
(* String helpers                                                          *)
(***************************************************************************)

\* Python's None, kept apart from every character sequence.
None == <<"None">>

\* Characters matched by \s (and stripped by str.strip) in the model alphabet.
WS == {" ", "\n"}

\* s[a..b], empty when a > b.
Sub(s, a, b) == IF a > b THEN <<>> ELSE SubSeq(s, a, b)

\* The pattern p occurs in s at index i.
HasAt(s, i, p) ==
    /\ i >= 1
    /\ i + Len(p) - 1 <= Len(s)
    /\ \A k \in 1..Len(p) : s[i + k - 1] = p[k]

\* The least element of a non-empty set of integers.
Least(S) == CHOOSE j \in S : \A k \in S : j <= k

\* The greatest element of a non-empty set of integers.
Greatest(S) == CHOOSE j \in S : \A k \in S : k <= j

\* Least index j >= i with s[j] in cs, or 0.
FindChar(s, i, cs) ==
    LET S == {j \in i..Len(s) : s[j] \in cs}
    IN  IF S = {} THEN 0 ELSE Least(S)

\* Least index j >= i at which p occurs in s, or 0.
FindStr(s, i, p) ==
    LET S == {j \in i..Len(s) : s[j] = p[1] /\ HasAt(s, j, p)}
    IN  IF S = {} THEN 0 ELSE Least(S)

\* Length of the longest run of characters of cs that starts at index i.
Run(s, i, cs) ==
    LET S == {j \in i..Len(s) : s[j] \notin cs}
    IN  IF i > Len(s) \/ s[i] \notin cs THEN 0
        ELSE IF S = {} THEN Len(s) - i + 1 ELSE Least(S) - i

\* Length of the longest run of characters outside cs that starts at index i.
RunNot(s, i, cs) ==
    LET S == {j \in i..Len(s) : s[j] \in cs}
    IN  IF i > Len(s) \/ s[i] \in cs THEN 0
        ELSE IF S = {} THEN Len(s) - i + 1 ELSE Least(S) - i

\* Length of the longest run of characters of cs that ends at index i.
RunBack(s, i, cs) ==
    LET S == {j \in 1..i : s[j] \notin cs}
    IN  IF i < 1 \/ s[i] \notin cs THEN 0
        ELSE IF S = {} THEN i ELSE i - Greatest(S)

\* Length of the longest run of characters outside cs that ends at index i.
RunNotBack(s, i, cs) ==
    LET S == {j \in 1..i : s[j] \in cs}
    IN  IF i < 1 \/ s[i] \in cs THEN 0
        ELSE IF S = {} THEN i ELSE i - Greatest(S)

\* '^' under re.MULTILINE: start of the string or just after a newline.
AtLineStart(s, i) == i = 1 \/ s[i - 1] = "\n"

\* '$' under re.MULTILINE: end of the string or just before a newline.
AtLineEnd(s, i) == i = Len(s) + 1 \/ (i <= Len(s) /\ s[i] = "\n")

(***************************************************************************)
(* clean_text.  For each re.sub of the pipeline, XEnd(s, i) is the last    *)
(* index of the pattern's match that starts at index i (0: no match        *)
(* there), found as the regex engine finds it; X(s) replaces the leftmost  *)
(* match, resumes after it and repeats, as re.sub does.  The set M of the  *)
(* match starts is filtered on the pattern's first character first.        *)
(***************************************************************************)

\* r'\{\{[^}]*\}\}': the run of non-'}' characters can only stop at the
\* first '}', which must open the closing pair.
TemplateEnd(s, i) ==
    IF ~HasAt(s, i, <<"{", "{">>) THEN 0
    ELSE LET j == FindChar(s, i + 2, {"}"})
         IN  IF j # 0 /\ HasAt(s, j, <<"}", "}">>) THEN j + 1 ELSE 0

RECURSIVE RemoveTemplatesFrom(_, _)
RemoveTemplatesFrom(s, i) ==
    LET M == {j \in i..Len(s) : s[j] = "{" /\ TemplateEnd(s, j) # 0}
    IN  IF M = {} THEN Sub(s, i, Len(s))
        ELSE Sub(s, i, Least(M) - 1)
             \o RemoveTemplatesFrom(s, TemplateEnd(s, Least(M)) + 1)

\* re.sub(r'\{\{[^}]*\}\}', '', text)
RemoveTemplates(s) == RemoveTemplatesFrom(s, 1)

\* r'\[\[([^|\]]*\|)?([^\]]*)\]\]': group 2 stops at the first ']', which
\* must open the closing pair.
LinkEnd(s, i) ==
    IF ~HasAt(s, i, <<"[", "[">>) THEN 0
    ELSE LET m == FindChar(s, i + 2, {"]"})
         IN  IF m # 0 /\ HasAt(s, m, <<"]", "]">>) THEN m + 1 ELSE 0

\* A variant of group 2 that yields the link's target, the part before the
\* first '|', instead of the shown text.
LinkTarget(s, i) ==
    LET k == FindChar(s, i + 2, {"|", "]"})
    IN  Sub(s, i + 2, k - 1)

\* Group 2 of the link match at i: what follows the first '|' when group 1
\* takes part, else everything between the brackets.
LinkShown(s, i) ==
    LET k == FindChar(s, i + 2, {"|", "]"})
    IN  IF s[k] = "|" THEN Sub(s, k + 1, LinkEnd(s, i) - 2)
        ELSE Sub(s, i + 2, LinkEnd(s, i) - 2)

RECURSIVE UnwrapLinksFrom(_, _)
UnwrapLinksFrom(s, i) ==
    LET M == {j \in i..Len(s) : s[j] = "[" /\ LinkEnd(s, j) # 0}
    IN  IF M = {} THEN Sub(s, i, Len(s))
        ELSE Sub(s, i, Least(M) - 1) \o LinkShown(s, Least(M))
             \o UnwrapLinksFrom(s, LinkEnd(s, Least(M)) + 1)

\* re.sub(r'\[\[([^|\]]*\|)?([^\]]*)\]\]', r'\2', text)
UnwrapLinks(s) == UnwrapLinksFrom(s, 1)

\* r'<ref[^>]*>.*?</ref>' with DOTALL: the opening tag runs to the first
\* '>', the body to the first '</ref>' after it.
RefPairEnd(s, i) ==
    IF ~HasAt(s, i, <<"<", "r", "e", "f">>) THEN 0
    ELSE LET j == FindChar(s, i + 4, {">"})
             p == IF j = 0 THEN 0
                  ELSE FindStr(s, j + 1, <<"<", "/", "r", "e", "f", ">">>)
         IN  IF p # 0 THEN p + 5 ELSE 0

RECURSIVE RemoveRefPairsFrom(_, _)
RemoveRefPairsFrom(s, i) ==
    LET M == {j \in i..Len(s) : s[j] = "<" /\ RefPairEnd(s, j) # 0}
    IN  IF M = {} THEN Sub(s, i, Len(s))
        ELSE Sub(s, i, Least(M) - 1)
             \o RemoveRefPairsFrom(s, RefPairEnd(s, Least(M)) + 1)

\* re.sub(r'<ref[^>]*>.*?</ref>', '', text, flags=re.DOTALL)
RemoveRefPairs(s) == RemoveRefPairsFrom(s, 1)

\* r'<ref[^>]*\/>': the first '>' after '<ref', preceded by a '/' that is
\* not part of '<ref' itself.
RefSelfEnd(s, i) ==
    IF ~HasAt(s, i, <<"<", "r", "e", "f">>) THEN 0
    ELSE LET j == FindChar(s, i + 4, {">"})
         IN  IF j >= i + 5 /\ s[j - 1] = "/" THEN j ELSE 0

RECURSIVE RemoveRefSelfFrom(_, _)
RemoveRefSelfFrom(s, i) ==
    LET M == {j \in i..Len(s) : s[j] = "<" /\ RefSelfEnd(s, j) # 0}
    IN  IF M = {} THEN Sub(s, i, Len(s))
        ELSE Sub(s, i, Least(M) - 1)
             \o RemoveRefSelfFrom(s, RefSelfEnd(s, Least(M)) + 1)

\* re.sub(r'<ref[^>]*\/>', '', text)
RemoveRefSelf(s) == RemoveRefSelfFrom(s, 1)

\* r'<[^>]+>': '<', at least one character other than '>', the first '>'.
TagEnd(s, i) ==
    IF ~HasAt(s, i, <<"<">>) THEN 0
    ELSE LET j == FindChar(s, i + 1, {">"})
         IN  IF j >= i + 2 THEN j ELSE 0

RECURSIVE StripTagsFrom(_, _)
StripTagsFrom(s, i) ==
    LET M == {j \in i..Len(s) : s[j] = "<" /\ TagEnd(s, j) # 0}
    IN  IF M = {} THEN Sub(s, i, Len(s))
        ELSE Sub(s, i, Least(M) - 1)
             \o StripTagsFrom(s, TagEnd(s, Least(M)) + 1)

\* re.sub(r'<[^>]+>', '', text)
StripTags(s) == StripTagsFrom(s, 1)

\* re.sub(p, '', text) for a literal p: every non-overlapping occurrence,
\* leftmost first.
RECURSIVE RemoveLiteralFrom(_, _, _)
RemoveLiteralFrom(s, i, p) ==
    LET j == FindStr(s, i, p)
    IN  IF j = 0 THEN Sub(s, i, Len(s))
        ELSE Sub(s, i, j - 1) \o RemoveLiteralFrom(s, j + Len(p), p)

\* re.sub(r"'''", '', text)
RemoveBold(s) == RemoveLiteralFrom(s, 1, <<"'", "'", "'">>)

\* re.sub(r"''", '', text)
RemoveItalic(s) == RemoveLiteralFrom(s, 1, <<"'", "'">>)

\* The character class [*#:;].
ListMarkers == {"*", "#", ":", ";"}

\* r'^[*#:;]+' with MULTILINE: the whole run of markers at a line start.
ListEnd(s, i) ==
    IF AtLineStart(s, i) /\ s[i] \in ListMarkers
    THEN i + Run(s, i, ListMarkers) - 1 ELSE 0

RECURSIVE StripListMarkersFrom(_, _)
StripListMarkersFrom(s, i) ==
    LET M == {j \in i..Len(s) : s[j] \in ListMarkers /\ ListEnd(s, j) # 0}
    IN  IF M = {} THEN Sub(s, i, Len(s))
        ELSE Sub(s, i, Least(M) - 1)
             \o StripListMarkersFrom(s, ListEnd(s, Least(M)) + 1)

\* re.sub(r'^[*#:;]+', '', text, flags=re.MULTILINE)
StripListMarkers(s) == StripListMarkersFrom(s, 1)

\* The backtracking search of ^=+\s*(.+?)\s*=+$ at a line start, in the
\* order the regex engine tries the alternatives: '=+' and '\s*' longest
\* first, '(.+?)' shortest first.  A match is <<first index of group 1,
\* last index of group 1, last index of the match>>; <<>> is no match.
RECURSIVE HdrClose(_, _, _)
HdrClose(s, q, e) ==
    IF e = 0 THEN 0
    ELSE IF AtLineEnd(s, q + e) THEN q + e - 1
    ELSE HdrClose(s, q, e - 1)

RECURSIVE HdrTrail(_, _, _)
HdrTrail(s, p, d) ==
    IF d < 0 THEN 0
    ELSE LET r == HdrClose(s, p + d, Run(s, p + d, {"="}))
         IN  IF r # 0 THEN r ELSE HdrTrail(s, p, d - 1)

RECURSIVE HdrGroup(_, _, _)
HdrGroup(s, g, c) ==
    IF g + c - 1 > Len(s) \/ s[g + c - 1] = "\n" THEN <<>>
    ELSE LET r == HdrTrail(s, g + c, Run(s, g + c, WS))
         IN  IF r # 0 THEN <<g, g + c - 1, r>> ELSE HdrGroup(s, g, c + 1)

RECURSIVE HdrLead(_, _, _)
HdrLead(s, w, b) ==
    IF b < 0 THEN <<>>
    ELSE LET r == HdrGroup(s, w + b, 1)
         IN  IF r # <<>> THEN r ELSE HdrLead(s, w, b - 1)

RECURSIVE HdrOpen(_, _, _)
HdrOpen(s, i, a) ==
    IF a = 0 THEN <<>>
    ELSE LET r == HdrLead(s, i + a, Run(s, i + a, WS))
         IN  IF r # <<>> THEN r ELSE HdrOpen(s, i, a - 1)

\* The match of the heading pattern that starts at index i, or <<>>.
HeaderMatch(s, i) ==
    IF AtLineStart(s, i) /\ s[i] = "="
    THEN HdrOpen(s, i, Run(s, i, {"="})) ELSE <<>>

RECURSIVE NormalizeHeadersFrom(_, _)
NormalizeHeadersFrom(s, i) ==
    LET M == {j \in i..Len(s) : s[j] = "=" /\ HeaderMatch(s, j) # <<>>}
    IN  IF M = {} THEN Sub(s, i, Len(s))
        ELSE LET r == HeaderMatch(s, Least(M))
             IN  Sub(s, i, Least(M) - 1) \o Sub(s, r[1], r[2])
                 \o NormalizeHeadersFrom(s, r[3] + 1)

\* re.sub(r'^=+\s*(.+?)\s*=+$', r'\1', text, flags=re.MULTILINE)
NormalizeHeaders(s) == NormalizeHeadersFrom(s, 1)

\* r'https?://\S+': the scheme, then every character up to the next
\* whitespace, at least one.
UrlEnd(s, i) ==
    IF ~HasAt(s, i, <<"h", "t", "t", "p">>) THEN 0
    ELSE LET q == IF HasAt(s, i + 4, <<"s">>) THEN i + 5 ELSE i + 4
             n == IF HasAt(s, q, <<":", "/", "/">>)
                  THEN RunNot(s, q + 3, WS) ELSE 0
         IN  IF n >= 1 THEN q + 2 + n ELSE 0

RECURSIVE RemoveUrlsFrom(_, _)
RemoveUrlsFrom(s, i) ==
    LET M == {j \in i..Len(s) : s[j] = "h" /\ UrlEnd(s, j) # 0}
    IN  IF M = {} THEN Sub(s, i, Len(s))
        ELSE Sub(s, i, Least(M) - 1)
             \o RemoveUrlsFrom(s, UrlEnd(s, Least(M)) + 1)

\* re.sub(r'https?://\S+', '', text)
RemoveUrls(s) == RemoveUrlsFrom(s, 1)

\* r'\n\n+': a run of two or more newlines.
NewlinesEnd(s, i) ==
    IF HasAt(s, i, <<"\n", "\n">>) THEN i + Run(s, i, {"\n"}) - 1 ELSE 0

RECURSIVE CollapseNewlinesFrom(_, _)
CollapseNewlinesFrom(s, i) ==
    LET M == {j \in i..Len(s) : s[j] = "\n" /\ NewlinesEnd(s, j) # 0}
    IN  IF M = {} THEN Sub(s, i, Len(s))
        ELSE Sub(s, i, Least(M) - 1) \o <<"\n", "\n">>
             \o CollapseNewlinesFrom(s, NewlinesEnd(s, Least(M)) + 1)

\* re.sub(r'\n\n+', '\n\n', text)
CollapseNewlines(s) == CollapseNewlinesFrom(s, 1)

\* r' +': a run of one or more spaces.
SpacesEnd(s, i) ==
    IF HasAt(s, i, <<" ">>) THEN i + Run(s, i, {" "}) - 1 ELSE 0

RECURSIVE CollapseSpacesFrom(_, _)
CollapseSpacesFrom(s, i) ==
    LET M == {j \in i..Len(s) : s[j] = " " /\ SpacesEnd(s, j) # 0}
    IN  IF M = {} THEN Sub(s, i, Len(s))
        ELSE Sub(s, i, Least(M) - 1) \o <<" ">>
             \o CollapseSpacesFrom(s, SpacesEnd(s, Least(M)) + 1)

\* re.sub(r' +', ' ', text)
CollapseSpaces(s) == CollapseSpacesFrom(s, 1)

\* A variant of the final strip that trims the leading whitespace only.
StripLeft(s) == Sub(s, Run(s, 1, WS) + 1, Len(s))

\* text.strip()
Strip(s) ==
    LET lead == Run(s, 1, WS)
    IN  IF lead = Len(s) THEN <<>>
        ELSE Sub(s, lead + 1, Len(s) - RunBack(s, Len(s), WS))

\* A variant of the pipeline that removes the double-quote markers before
\* the triple-quote markers.
CleanStepsItalicFirst ==
    <<"templates", "links", "refpairs", "refself", "tags", "italic", "bold",
      "lists", "headers", "urls", "newlines", "spaces", "strip">>

\* A variant of the pipeline with generic tag stripping before the two
\* reference stages.
CleanStepsTagsFirst ==
    <<"templates", "links", "tags", "refpairs", "refself", "bold", "italic",
      "lists", "headers", "urls", "newlines", "spaces", "strip">>

\* The pipeline stages of clean_text, in source order.
CleanSteps ==
    <<"templates", "links", "refpairs", "refself", "tags", "bold", "italic",
      "lists", "headers", "urls", "newlines", "spaces", "strip">>

\* The rewrite performed by one stage.
ApplyStep(name, s) ==
    CASE name = "templates" -> RemoveTemplates(s)
      [] name = "links"     -> UnwrapLinks(s)
      [] name = "refpairs"  -> RemoveRefPairs(s)
      [] name = "refself"   -> RemoveRefSelf(s)
      [] name = "tags"      -> StripTags(s)
      [] name = "bold"      -> RemoveBold(s)
      [] name = "italic"    -> RemoveItalic(s)
      [] name = "lists"     -> StripListMarkers(s)
      [] name = "headers"   -> NormalizeHeaders(s)
      [] name = "urls"      -> RemoveUrls(s)
      [] name = "newlines"  -> CollapseNewlines(s)
      [] name = "spaces"    -> CollapseSpaces(s)
      [] name = "strip"     -> Strip(s)

\* Stages n, n+1, ... of the pipeline applied to s.
RECURSIVE Pipeline(_, _)
Pipeline(s, n) ==
    IF n > Len(CleanSteps) THEN s
    ELSE Pipeline(ApplyStep(CleanSteps[n], s), n + 1)

\* Python truthiness of an optional string: neither None nor "".
Truthy(v) == v # None /\ v # <<>>

\* clean_text(text)
clean_text(text) == IF ~Truthy(text) THEN <<>> ELSE Pipeline(text, 1)

(***************************************************************************)
(* Inputs                                                                  *)
(***************************************************************************)

\* n copies of the character c.
Rep(c, n) == [k \in 1..n |-> c]

\* The end-to-end example body of the specification.
TextExample ==
    <<"'", "'", "'", "B", "o", "l", "d", "'", "'", "'", " ", "t", "e", "x",
      "t", " ", "w", "i", "t", "h", " ", "a", " ", "[", "[", "L", "i", "n",
      "k", "|", "s", "h", "o", "w", "n", "]", "]", " ", "a", "n", "d", " ",
      "{", "{", "c", "i", "t", "e", "|", "x", "}", "}", " ", "r", "e", "f",
      "e", "r", "e", "n", "c", "e", "<", "r", "e", "f", ">", "n", "o", "t",
      "e", "<", "/", "r", "e", "f", ">", " ", "e", "n", "d", ".">>

\* Threshold of the length test on the cleaned text.
MinCleanLen == 100

\* Bodies whose cleaned text has MinCleanLen and MinCleanLen + 1 characters.
TextAtMin == <<"'", "'", "'">> \o Rep("a", MinCleanLen) \o <<"'", "'", "'">>
TextOverMin == <<"{", "{", "t", "}", "}">> \o Rep("b", MinCleanLen + 1)

\* Values of elem.text at the end of a <text> element (None: no content).
ElemTexts == {None, TextAtMin, TextOverMin}

TitleFile  == <<"F", "i", "l", "e", ":", "x">>
TitleLate  == <<"A", " ", "F", "i", "l", "e", ":", "x">>
TitleLower == <<"f", "i", "l", "e", ":", "x">>

\* Values of elem.text at the end of a <title> element.
ElemTitles == {None, TitleFile, TitleLate, TitleLower}

\* The tuple given to current_title.startswith.
SpecialPrefixes ==
    << <<"W", "i", "k", "i", "p", "e", "d", "i", "a", ":">>,
       <<"T", "e", "m", "p", "l", "a", "t", "e", ":">>,
       <<"C", "a", "t", "e", "g", "o", "r", "y", ":">>,
       <<"F", "i", "l", "e", ":">>,
       <<"H", "e", "l", "p", ":">> >>

\* str.startswith(tuple)
StartsWithAny(s, ps) == \E k \in 1..Len(ps) : HasAt(s, 1, ps[k])

\* Local element names the loop tells apart, and one it does not.
PageTag  == <<"p", "a", "g", "e">>
TitleTag == <<"t", "i", "t", "l", "e">>
TextTag  == <<"t", "e", "x", "t">>
OtherTag == <<"i", "d">>
LocalNames == {PageTag, TitleTag, TextTag, OtherTag}

\* Namespace prefixes ElementTree puts before the local name.
Namespaces == {<<>>, <<"{", "n", "}">>}

\* elem.tag.split('}')[-1]
TagName(tag) == Sub(tag, Len(tag) - RunNotBack(tag, Len(tag), {"}"}) + 1, Len(tag))

\* Bounds of the model: elements started after the root and open elements
\* of an arbitrary document, elements started after the root of a
\* dump-shaped document, tokens of a cleaner input.
MaxElems == 4
MaxDepth == 3
MaxDumpElems == 6
MaxTokens == 2

\* Bounds of the shaped cleaner inputs: characters of a plain part,
\* characters of a part of a link or of a text with two references,
\* whitespace characters of a gap, fragments of a text of braces.
MaxPlain == 2
MaxPart == 1
MaxGap == 3
MaxBrace == 4

\* Values of max_articles: 0 stands for None (and for 0, as false as None).
Caps == {0, 1, 2}

\* Acceptances between two progress lines.
ProgressEvery == 100

\* Bytes per megabyte in the size report.
BytesPerMb == 1048576

\* f"{text_size / (1024 * 1024):.1f}", in tenths of a megabyte (the format
\* rounds to nearest, ties to even).
MbTenths(n) ==
    LET q == (n * 10) \div BytesPerMb
        r == (n * 10) % BytesPerMb
    IN  IF 2 * r > BytesPerMb \/ (2 * r = BytesPerMb /\ q % 2 = 1)
        THEN q + 1 ELSE q

(***************************************************************************)
(* State                                                                   *)
(***************************************************************************)
VARIABLES
    pc,             \* "start", "loop", "done" (returned), "error" (raised)
    max_articles,   \* None or the cap
    ns,             \* namespace prefix of the document's tags
    dumpShaped,     \* the document nests like a dump: pages and other
                    \* elements under the root, titles, texts and other
                    \* elements under a page, nothing deeper
    stack,          \* the parser's open elements, root first
    docDone,        \* the root's end tag has been read
    nElems,         \* elements started after the root
    in_page, current_title, current_text,
    out,            \* arguments of the out.write calls, in order
    article_count, text_size,
    progress,       \* progress lines printed
    summary,        \* <<>> or <<count, tenths of MB>> of the final line
    closed,         \* f.close() and out.close() have run
    closedLog,      \* candidate <<title, text>> at each End(page) consumed
    pageTitles,     \* texts of the End(title) events taken since Start(page)
    maxPage,        \* elements of the largest page element closed so far
    cin, ctext, cstep   \* cleaner run: input, current text, stages applied

vars == <<pc, max_articles, ns, dumpShaped, stack, docDone, nElems, in_page,
          current_title, current_text, out, article_count, text_size,
          progress, summary, closed, closedLog, pageTitles, maxPage,
          cin, ctext, cstep>>

parserVars == <<ns, dumpShaped, stack, docDone, nElems, maxPage>>
recordVars == <<in_page, current_title, current_text, pageTitles>>
sinkVars   == <<out, article_count, text_size, progress, summary, closed>>
cleanVars  == <<cin, ctext, cstep>>

(***************************************************************************)
(* The element tree kept by ElementTree.iterparse                          *)
(***************************************************************************)

\* A started element: kids counts the closed descendants it still holds,
\* att tells whether its parent still lists it, size counts every element
\* parsed in its subtree.
Elem(tag) == [tag |-> tag, kids |-> 0, att |-> TRUE, size |-> 1]

Top(st) == st[Len(st)]

\* The builder's start handler: the new element becomes a child of the top.
Push(st, tag) == Append(st, Elem(tag))

\* The builder's end handler: the top element is complete and stays in its
\* parent's child list if the parent still lists it.
Pop(st) ==
    LET n == Len(st)
        e == st[n]
    IN  IF n = 1 THEN st
        ELSE [Sub(st, 1, n - 1) EXCEPT
                ![n - 1].kids = @ + (IF e.att THEN 1 + e.kids ELSE 0),
                ![n - 1].size = @ + e.size]

\* elem.clear() on the element whose end event is being handled (the top
\* of the stack): its children leave the tree.
ClearElem(st) == [st EXCEPT ![Len(st)].kids = 0]

\* root.clear(): the root drops all its children; an open child stays
\* referenced by the parser only.
ClearRoot(st) ==
    [k \in 1..Len(st) |->
        IF k = 1 THEN [st[k] EXCEPT !.kids = 0]
        ELSE IF k = 2 THEN [st[k] EXCEPT !.att = FALSE]
        ELSE st[k]]

\* Elements held in memory: the open elements and what they still list,
\* counted as the events are delivered (the parser's read-ahead of one
\* buffer is left out).
RECURSIVE RetainedFrom(_, _)
RetainedFrom(st, k) ==
    IF k > Len(st) THEN 0 ELSE 1 + st[k].kids + RetainedFrom(st, k + 1)

Retained == RetainedFrom(stack, 1)

(***************************************************************************)
(* extract_articles                                                        *)
(***************************************************************************)

Max(a, b) == IF a >= b THEN a ELSE b

\* A variant of the first test that looks at the text alone.
HasBothTextOnly(title, text) == Truthy(text)

\* if current_title and current_text
HasBoth(title, text) == Truthy(title) /\ Truthy(text)

\* A variant of the second test that finds a prefix anywhere in the title.
IsSpecialAnywhere(title) ==
    \E k \in 1..Len(SpecialPrefixes) :
        FindStr(title, 1, SpecialPrefixes[k]) # 0

\* current_title.startswith(('Wikipedia:', 'Template:', ...))
IsSpecial(title) == StartsWithAny(title, SpecialPrefixes)

\* A variant of the third test that lets the minimum itself through.
LongEnoughAtLeast(clean) == Len(clean) >= MinCleanLen

\* if len(clean) > 100
LongEnough(clean) == Len(clean) > MinCleanLen

\* The three nested tests an End(page) passes before it writes; clean is
\* clean_text(text).
Accepts(title, text, clean) ==
    /\ HasBoth(title, text)
    /\ ~IsSpecial(title)
    /\ LongEnough(clean)

\* A variant of the cap test that stops one acceptance late.
CapReachedLate(count) == max_articles # 0 /\ count > max_articles

\* A variant of the cap test that stops at any acceptance under a cap.
CapReachedAtOnce(count) == max_articles # 0

\* if max_articles and article_count >= max_articles (None and 0 are both
\* false in the first test; 0 stands for either).
CapReached(count) == max_articles # 0 /\ count >= max_articles

\* A variant of the two writes without the blank line after the text.
WrittenNoBlank(title, clean) == <<title \o <<"\n">>, clean \o <<"\n">>>>

\* The two out.write calls of an acceptance.
Written(title, clean) == <<title \o <<"\n">>, clean \o <<"\n", "\n">>>>

\* The parser can deliver the start event of an element called name.
CanStart(name) ==
    /\ ~docDone
    /\ IF dumpShaped
       THEN /\ nElems < MaxDumpElems
            /\ \/ Len(stack) = 1 /\ name \in {PageTag, OtherTag}
               \/ /\ Len(stack) = 2
                  /\ TagName(Top(stack).tag) = PageTag
                  /\ name # PageTag
       ELSE /\ nElems < MaxElems
            /\ Len(stack) < MaxDepth

\* The parser can deliver the end event of the top element, called name.
CanEnd(name) == ~docDone /\ TagName(Top(stack).tag) = name

\* State after the setup of lines 48-60; the parser has delivered nothing.
Setup ==
    /\ pc = "start"
    /\ max_articles \in Caps
    /\ ns \in Namespaces
    /\ stack = <<>>
    /\ docDone = FALSE
    /\ nElems = 0
    /\ in_page = FALSE
    /\ current_title = None
    /\ current_text = None
    /\ out = <<>>
    /\ article_count = 0
    /\ text_size = 0
    /\ progress = 0
    /\ summary = <<>>
    /\ closed = FALSE
    /\ closedLog = <<>>
    /\ pageTitles = <<>>
    /\ maxPage = 0

\* extract_articles on an arbitrary well-formed or malformed document.
Init ==
    /\ Setup
    /\ dumpShaped = FALSE
    /\ cin = <<>>
    /\ ctext = <<>>
    /\ cstep = 0

\* extract_articles on a dump-shaped document.
InitDump ==
    /\ Setup
    /\ ns # <<>>
    /\ dumpShaped = TRUE
    /\ cin = <<>>
    /\ ctext = <<>>
    /\ cstep = 0

\* _, root = next(context): the root's start event is taken outside the loop.
ReadRoot(name) ==
    /\ pc = "start"
    /\ dumpShaped => name = OtherTag
    /\ pc' = "loop"
    /\ stack' = <<Elem(ns \o name)>>
    /\ in_page' = FALSE
    /\ current_title' = None
    /\ current_text' = None
    /\ UNCHANGED <<max_articles, ns, dumpShaped, docDone, nElems, maxPage,
                   pageTitles,
                   sinkVars, closedLog, cleanVars>>

\* A variant of the page start that keeps the previous candidate.
StartPageNoReset ==
    /\ pc = "loop"
    /\ CanStart(PageTag)
    /\ stack' = Push(stack, ns \o PageTag)
    /\ nElems' = nElems + 1
    /\ in_page' = TRUE
    /\ pageTitles' = <<>>
    /\ UNCHANGED <<pc, max_articles, ns, dumpShaped, docDone, maxPage,
                   current_title, current_text, sinkVars, closedLog,
                   cleanVars>>

\* event == 'start' and tag == 'page'
StartPage ==
    /\ pc = "loop"
    /\ CanStart(PageTag)
    /\ stack' = Push(stack, ns \o PageTag)
    /\ nElems' = nElems + 1
    /\ in_page' = TRUE
    /\ current_title' = None
    /\ current_text' = None
    /\ pageTitles' = <<>>
    /\ UNCHANGED <<pc, max_articles, ns, dumpShaped, docDone, maxPage, sinkVars,
                   closedLog, cleanVars>>

\* A start event of any other element: no branch of the loop takes it.
StartOther(name) ==
    /\ pc = "loop"
    /\ CanStart(name)
    /\ stack' = Push(stack, ns \o name)
    /\ nElems' = nElems + 1
    /\ UNCHANGED <<pc, max_articles, ns, dumpShaped, docDone, maxPage, recordVars,
                   sinkVars, closedLog, cleanVars>>

\* What every end event does to the parser.
EndTop ==
    /\ stack' = Pop(stack)
    /\ docDone' = (Len(stack) = 1)
    /\ UNCHANGED <<ns, dumpShaped, nElems>>

\* A variant of the title branch without the in_page test.
EndTitleAlways(text) ==
    /\ pc = "loop"
    /\ CanEnd(TitleTag)
    /\ EndTop
    /\ current_title' = text
    /\ pageTitles' = IF in_page THEN Append(pageTitles, text) ELSE pageTitles
    /\ UNCHANGED <<pc, max_articles, maxPage, in_page, current_text,
                   sinkVars, closedLog, cleanVars>>

\* A variant of the title branch that keeps the first title of a page.
EndTitleKeepFirst(text) ==
    /\ pc = "loop"
    /\ CanEnd(TitleTag)
    /\ EndTop
    /\ current_title' = IF in_page /\ current_title = None THEN text
                        ELSE current_title
    /\ pageTitles' = IF in_page THEN Append(pageTitles, text) ELSE pageTitles
    /\ UNCHANGED <<pc, max_articles, maxPage, in_page, current_text,
                   sinkVars, closedLog, cleanVars>>

\* event == 'end' and tag == 'title' and in_page; outside a page the
\* event falls through every branch.
EndTitle(text) ==
    /\ pc = "loop"
    /\ CanEnd(TitleTag)
    /\ EndTop
    /\ current_title' = IF in_page THEN text ELSE current_title
    /\ pageTitles' = IF in_page THEN Append(pageTitles, text) ELSE pageTitles
    /\ UNCHANGED <<pc, max_articles, maxPage, in_page, current_text,
                   sinkVars, closedLog, cleanVars>>

\* event == 'end' and tag == 'text' and in_page
EndText(text) ==
    /\ pc = "loop"
    /\ CanEnd(TextTag)
    /\ EndTop
    /\ current_text' = IF in_page THEN text ELSE current_text
    /\ UNCHANGED <<pc, max_articles, maxPage, in_page, current_title,
                   pageTitles, sinkVars, closedLog, cleanVars>>

\* An end event of an element the loop does not name.
EndOther ==
    /\ pc = "loop"
    /\ CanEnd(OtherTag)
    /\ EndTop
    /\ UNCHANGED <<pc, max_articles, maxPage, recordVars, sinkVars,
                   closedLog, cleanVars>>

\* A variant of the summary that reports the counters as they were before
\* the event being handled.
FinishStale(count, size) ==
    /\ pc' = "done"
    /\ closed' = TRUE
    /\ summary' = <<article_count, MbTenths(text_size)>>

\* Lines 112-117: close both files and print the summary.
Finish(count, size) ==
    /\ pc' = "done"
    /\ closed' = TRUE
    /\ summary' = <<count, MbTenths(size)>>

\* event == 'end' and tag == 'page': filter, clean, write, count, and
\* either break out of the loop (then lines 112-117 run) or reset in_page
\* and clear the element and the root.
EndPage ==
    /\ pc = "loop"
    /\ CanEnd(PageTag)
    /\ LET clean  == clean_text(current_text)
           accept == Accepts(current_title, current_text, clean)
           count  == IF accept THEN article_count + 1 ELSE article_count
           size   == IF accept THEN text_size + Len(clean) ELSE text_size
           brk    == accept /\ CapReached(count)
       IN  /\ out' = IF accept THEN out \o Written(current_title, clean)
                               ELSE out
           /\ article_count' = count
           /\ text_size' = size
           /\ progress' = IF accept /\ count % ProgressEvery = 0
                          THEN progress + 1 ELSE progress
           /\ IF brk
              THEN /\ Finish(count, size)
                   /\ stack' = Pop(stack)
                   /\ in_page' = in_page
              ELSE /\ pc' = pc
                   /\ closed' = closed
                   /\ summary' = summary
                   /\ stack' = ClearRoot(Pop(ClearElem(stack)))
                   /\ in_page' = FALSE
    /\ docDone' = (Len(stack) = 1)
    /\ maxPage' = Max(maxPage, Top(stack).size)
    /\ closedLog' = Append(closedLog, <<current_title, current_text>>)
    /\ UNCHANGED <<max_articles, ns, dumpShaped, nElems, current_title,
                   current_text,
                   pageTitles, cleanVars>>

\* The iterator is exhausted: the loop ends and lines 112-117 run.
EndOfInput ==
    /\ pc = "loop"
    /\ docDone
    /\ Finish(article_count, text_size)
    /\ UNCHANGED <<max_articles, parserVars, recordVars, out, article_count,
                   text_size, progress, closedLog, cleanVars>>

\* A variant of the failure that discards what was written before it.
ParseErrorRollback ==
    /\ pc \in {"start", "loop"}
    /\ pc' = "error"
    /\ out' = <<>>
    /\ UNCHANGED <<max_articles, parserVars, recordVars, article_count,
                   text_size, progress, summary, closed, closedLog, cleanVars>>

\* next(context) raises ParseError: nothing in extract_articles catches
\* it, so the call ends there.
ParseError ==
    /\ pc \in {"start", "loop"}
    /\ pc' = "error"
    /\ UNCHANGED <<max_articles, parserVars, recordVars, sinkVars,
                   closedLog, cleanVars>>

Next ==
    \/ \E name \in LocalNames : ReadRoot(name)
    \/ StartPage
    \/ \E name \in LocalNames \ {PageTag} : StartOther(name)
    \/ \E text \in ElemTitles : EndTitle(text)
    \/ \E text \in ElemTexts : EndText(text)
    \/ EndOther
    \/ EndPage
    \/ EndOfInput
    \/ ParseError

Spec == Init /\ [][Next]_vars

SpecDump == InitDump /\ [][Next]_vars

(***************************************************************************)
(* clean_text on its own: the pipeline run one stage at a time             *)
(***************************************************************************)

\* The concatenation of a sequence of strings.
RECURSIVE Concat(_)
Concat(ss) == IF ss = <<>> THEN <<>> ELSE Head(ss) \o Concat(Tail(ss))

\* Markup fragments the cleaner inputs are built from.
CleanTokens ==
    { <<"{", "{">>, <<"}", "}">>, <<"[", "[">>, <<"]", "]">>, <<"|">>,
      <<"<", "r", "e", "f", ">">>, <<"<", "/", "r", "e", "f", ">">>,
      <<"<", "r", "e", "f", "/", ">">>, <<"'", "'", "'">>, <<"'", "'">>,
      <<" ">>, <<"\n">>, <<"a">>, <<"=">> }

\* Every string made of at most n tokens.
TokenStrings(n) ==
    {Concat(ts) : ts \in UNION {[1..k -> CleanTokens] : k \in 0..n}}

\* Every string made of at most n fragments of T.
StringsOver(T, n) ==
    {Concat(ts) : ts \in UNION {[1..k -> T] : k \in 0..n}}

\* Fragments of plain text: letters, a space, a newline.
PlainTokens == {<<"x">>, <<"y">>, <<" ">>, <<"\n">>}

RefOpen == <<"<", "r", "e", "f", ">">>
RefClose == <<"<", "/", "r", "e", "f", ">">>
RefSelfNamed == <<"<", "r", "e", "f", " ", "n", "a", "m", "e", "=", "n", "/", ">">>

\* A reference followed by plain text: "<ref>" body "</ref>" rest.
RefInputs ==
    {RefOpen \o x \o RefClose \o y :
        x \in StringsOver(PlainTokens, MaxPlain) \cup CleanTokens,
        y \in StringsOver(PlainTokens, MaxPlain)}

\* Texts of double and single braces.
BraceTokens == {<<"{", "{">>, <<"}", "}">>, <<"{">>, <<"}">>, <<"x">>}
TextInfobox == <<"{", "{", "I", "n", "f", "o", "b", "o", "x", "|", "x", "=", "1", "}", "}">>
BraceInputs == StringsOver(BraceTokens, MaxBrace) \cup {TextInfobox}

\* One link between two plain parts, with and without a pipe.
LinkPartTokens == {<<"x">>, <<"|">>, <<"[">>, <<" ">>}
TextCat == <<"[", "[", "C", "a", "t", "|", "C", "a", "t", "s", "]", "]">>
TextDog == <<"[", "[", "D", "o", "g", "]", "]">>
LinkInputs ==
    LET ends    == StringsOver({<<"x">>}, MaxPart)
        shown   == StringsOver(LinkPartTokens, MaxPart)
        targets == {t \in shown : \A k \in DOMAIN t : t[k] # "|"}
    IN  {a \o <<"[", "[">> \o t \o <<"|">> \o d \o <<"]", "]">> \o b :
            a \in ends, t \in targets, d \in shown, b \in ends}
        \cup {a \o <<"[", "[">> \o t \o <<"]", "]">> \o b :
            a \in ends, t \in targets, b \in ends}
        \cup {TextCat, TextDog, TextCat \o <<" ">> \o TextDog}

\* Runs of spaces and newlines, alone and between two letters.
GapInputs ==
    LET gaps == StringsOver({<<" ">>, <<"\n">>}, MaxGap)
    IN  gaps \cup {<<"x">> \o g \o <<"x">> : g \in gaps}

\* A self-closing named reference and a paired reference between plain
\* parts: A "<ref name=n/>" B "<ref>" c "</ref>" D.
RefMix(a, b, c, d) ==
    a \o RefSelfNamed \o b \o RefOpen \o c \o RefClose \o d
MixParts == StringsOver({<<"x">>, <<" ">>}, MaxPart)
RefMixInputs ==
    {RefMix(a, b, c, d) : a \in MixParts, b \in MixParts,
                           c \in MixParts, d \in MixParts}

\* The emphasis example of the specification.
TextBold == <<"'", "'", "'", "B", "o", "l", "d", "'", "'", "'", " ", "t", "e", "x", "t">>

\* The texts clean_text is run on.
CleanInputs ==
    {None, TextExample, TextAtMin, TextOverMin, TextBold}
    \cup TokenStrings(MaxTokens) \cup RefInputs \cup BraceInputs
    \cup LinkInputs \cup GapInputs \cup RefMixInputs

\* clean_text is entered with one of the inputs.
InitClean ==
    /\ Setup
    /\ max_articles = 0
    /\ ns = <<>>
    /\ dumpShaped = FALSE
    /\ cin \in CleanInputs
    /\ ctext = cin
    /\ cstep = 0

\* if not text: return ""
CleanReturnEmpty ==
    /\ cstep = 0
    /\ ~Truthy(ctext)
    /\ ctext' = <<>>
    /\ cstep' = Len(CleanSteps)
    /\ UNCHANGED <<pc, max_articles, parserVars, recordVars, sinkVars,
                   closedLog, cin>>

\* The next statement of clean_text: one re.sub, or the final strip of the
\* return statement.
CleanStage ==
    /\ cstep < Len(CleanSteps)
    /\ cstep = 0 => Truthy(ctext)
    /\ ctext' = ApplyStep(CleanSteps[cstep + 1], ctext)
    /\ cstep' = cstep + 1
    /\ UNCHANGED <<pc, max_articles, parserVars, recordVars, sinkVars,
                   closedLog, cin>>

NextClean == CleanReturnEmpty \/ CleanStage

SpecClean == InitClean /\ [][NextClean]_vars

(***************************************************************************)
(* Properties                                                              *)
(***************************************************************************)

\* The step consumes an End(page) event.
PageCloses == Len(closedLog') = Len(closedLog) + 1

\* The step writes a record.
Writes == out' # out

\* A title or a text that is neither absent nor empty.
Present(v) == v # None /\ v # <<>>

\* The excluded prefixes as the specification names them.
NamedPrefixes ==
    { <<"W", "i", "k", "i", "p", "e", "d", "i", "a", ":">>,
      <<"T", "e", "m", "p", "l", "a", "t", "e", ":">>,
      <<"C", "a", "t", "e", "g", "o", "r", "y", ":">>,
      <<"F", "i", "l", "e", ":">>,
      <<"H", "e", "l", "p", ":">> }

\* The title begins, at its first character, with a named prefix.
PrefixAtZero(title) ==
    \E p \in NamedPrefixes :
        Len(p) <= Len(title) /\ SubSeq(title, 1, Len(p)) = p

\* The candidate passes the pre-clean filter.
PreFilterOk(title, text) ==
    Present(title) /\ Present(text) /\ ~PrefixAtZero(title)

\* Records in the output: two writes each.
Records == Len(out) \div 2

\* C1: an End(page) whose candidate title or text is absent or empty
\* writes nothing and changes neither counter.
C1_MissingFieldWritesNothing ==
    [][(PageCloses /\ (~Present(current_title) \/ ~Present(current_text)))
          => /\ out' = out
             /\ article_count' = article_count
             /\ text_size' = text_size]_vars

\* A page with a long text and no title was closed and nothing was written.
C1_Witness ==
    /\ out = <<>>
    /\ \E i \in DOMAIN closedLog : closedLog[i] = <<None, TextOverMin>>
    /\ \E i \in DOMAIN closedLog : closedLog[i][2] = None

\* C2: a title that starts with one of the five named prefixes is never
\* written, whatever the text; a title that holds a prefix after its first
\* character, or in another letter case, passes this test (and is written
\* when its text is long enough).
C2_PrefixAtZeroRejected ==
    [][PageCloses
         => /\ PrefixAtZero(current_title) => out' = out
            /\ (/\ current_title \in {TitleLate, TitleLower}
                /\ current_text = TextOverMin) => Writes
            /\ \A p \in NamedPrefixes :
                 /\ IsSpecial(p \o <<"x">>)
                 /\ ~IsSpecial(<<"A", " ">> \o p)]_vars

\* A page titled File:x with a long text was closed and nothing was
\* written.
C2_Witness ==
    /\ out = <<>>
    /\ \E i \in DOMAIN closedLog : closedLog[i] = <<TitleFile, TextOverMin>>

\* C3 as the specification states it: a candidate past the pre-clean
\* filter is written iff its cleaned text has at least 100 characters.
C3_WrittenIffAtLeastMin ==
    [][(PageCloses /\ PreFilterOk(current_title, current_text))
          => (Writes <=> Len(clean_text(current_text)) >= MinCleanLen)]_vars

\* C3 as the code has it: a candidate past the pre-clean filter is written
\* iff its cleaned text has more than 100 characters; a cleaned text of
\* exactly 100 characters is rejected.
C3_WrittenIffOverMin ==
    [][(PageCloses /\ PreFilterOk(current_title, current_text))
          => (Writes <=> Len(clean_text(current_text)) > MinCleanLen)]_vars

\* A candidate whose cleaned text has exactly 100 characters was closed
\* and nothing was written.
C3_Witness ==
    /\ out = <<>>
    /\ \E i \in DOMAIN closedLog :
          /\ closedLog[i] = <<TitleLate, TextAtMin>>
          /\ Len(clean_text(TextAtMin)) = MinCleanLen

Min(a, b) == IF a <= b THEN a ELSE b

\* End(page) events consumed so far whose candidate passes all filters.
EligibleSeen ==
    Cardinality({i \in DOMAIN closedLog :
        /\ PreFilterOk(closedLog[i][1], closedLog[i][2])
        /\ Len(clean_text(closedLog[i][2])) > MinCleanLen})

\* C4: under a positive cap N the records written never exceed N, and a
\* finished run has written min(N, E) records, E counting the pages that
\* pass all filters among those read; a run that stops before the end of
\* the input has written exactly N.
C4_CapBoundsRecords ==
    max_articles # 0
        => /\ Records <= max_articles
           /\ Records = article_count
           /\ pc = "done"
                => /\ Records = Min(max_articles, EligibleSeen)
                   /\ ~docDone => Records = max_articles

\* A run capped at 2 stopped with 2 records before the input ended.
C4_Witness ==
    /\ pc = "done"
    /\ max_articles = 2
    /\ Records = 2
    /\ ~docDone
    /\ EligibleSeen = 2

\* C5 as the specification states it: the title of a record written for
\* an open page is the text of the first End(title) of that page.
C5_FirstTitleKept ==
    [][(PageCloses /\ Writes /\ in_page /\ pageTitles # <<>>)
          => out'[Len(out) + 1] = pageTitles[1] \o <<"\n">>]_vars

\* C5 as the code has it: every End(title) of an open page sets the title,
\* so the title of the record is the text of the last of them.
C5_LastTitleKept ==
    [][(PageCloses /\ Writes /\ in_page /\ pageTitles # <<>>)
          => out'[Len(out) + 1]
               = pageTitles[Len(pageTitles)] \o <<"\n">>]_vars

\* A page with two different titles was written under the second.
C5_Witness ==
    /\ ~in_page
    /\ Len(pageTitles) >= 2
    /\ pageTitles[1] # pageTitles[Len(pageTitles)]
    /\ Len(out) = 2
    /\ out[1] = pageTitles[Len(pageTitles)] \o <<"\n">>

\* C6: an End(page) that leaves the loop running leaves the accumulator
\* idle with the candidate's title and text absent, and only an End(page)
\* of an open page writes (so no captured pair is written twice).
C6_CandidateCleared ==
    [][PageCloses
         => /\ pc' = "loop" => /\ ~in_page'
                               /\ current_title' = None
                               /\ current_text' = None
            /\ Writes => in_page]_vars

\* Elements of the largest page read so far, closed or still open.
LargestPage ==
    Greatest({maxPage} \cup
             {stack[k].size : k \in {j \in DOMAIN stack :
                                        TagName(stack[j].tag) = PageTag}})

\* C7: the elements the parser retains are, besides the open elements
\* themselves, never more than the elements of the largest page.
C7_RetainedBoundedByPage == Retained <= Len(stack) + LargestPage

\* What the output gains at an End(page) with this candidate: title,
\* newline, cleaned text, newline, blank line when it passes all filters,
\* else nothing.
RecordText(title, text) ==
    IF PreFilterOk(title, text) /\ Len(clean_text(text)) > MinCleanLen
    THEN title \o <<"\n">> \o clean_text(text) \o <<"\n">> \o <<"\n">>
    ELSE <<>>

\* C8: each End(page) appends to the output, in the same step and after
\* everything written before, the whole record of its candidate or
\* nothing; no other step writes. The output is therefore the
\* concatenation of the accepted records in the order of their End(page)
\* events.
C8_RecordsInEventOrder ==
    [][IF PageCloses
       THEN /\ Len(out') >= Len(out)
            /\ Sub(out', 1, Len(out)) = out
            /\ Concat(Sub(out', Len(out) + 1, Len(out')))
                 = RecordText(current_title, current_text)
       ELSE out' = out]_vars

\* Two pages were closed and their records, with different titles, stand
\* in the output in the order of their End(page) events.
C8_Witness ==
    /\ Len(out) = 4
    /\ out[1] # out[3]
    /\ Concat(out) = RecordText(closedLog[1][1], closedLog[1][2])
                     \o RecordText(closedLog[2][1], closedLog[2][2])

\* C9: the step in which the parser fails writes nothing, prints no
\* summary, consumes no event and leaves the output as it was; after it
\* the run takes no further step.
C9_ParseErrorAborts ==
    [][/\ pc' = "error"
            => /\ out' = out
               /\ closedLog' = closedLog
               /\ stack' = stack
               /\ article_count' = article_count
               /\ summary' = <<>>
               /\ ~closed'
       /\ pc # "error"]_vars

\* The parser failed after a record had been written; the record is
\* still there and no summary was printed.
C9_Witness ==
    /\ pc = "error"
    /\ Len(out) = 2
    /\ summary = <<>>

\* The cleaned text the specification gives for its example.
ExampleAsSpecified ==
    <<"B", "o", "l", "d", " ", "t", "e", "x", "t", " ", "w", "i", "t", "h",
      " ", "a", " ", "s", "h", "o", "w", "n", " ", "a", "n", "d", " ", " ",
      "e", "n", "d", ".">>

\* The cleaned text with the word that stands outside the template and
\* the reference kept, and the run of spaces collapsed.
ExampleAsCleaned ==
    <<"B", "o", "l", "d", " ", "t", "e", "x", "t", " ", "w", "i", "t", "h",
      " ", "a", " ", "s", "h", "o", "w", "n", " ", "a", "n", "d", " ",
      "r", "e", "f", "e", "r", "e", "n", "c", "e", " ", "e", "n", "d", ".">>

\* The cleaner has returned.
CleanReturned == cstep = Len(CleanSteps)

\* C10 as the specification states it: cleaning the example gives
\* "Bold text with a shown and  end.".
C10_ExampleAsSpecified ==
    (cin = TextExample /\ CleanReturned) => ctext = ExampleAsSpecified

\* C10 as the code has it: cleaning the example gives
\* "Bold text with a shown and reference end.".
C10_ExampleAsCleaned ==
    (cin = TextExample /\ CleanReturned) => ctext = ExampleAsCleaned

\* The cleaner has returned from the example.
C10_Witness == cin = TextExample /\ CleanReturned /\ ctext # cin

\* The stages steps[n], steps[n + 1], ... applied to s.
RECURSIVE RunSteps(_, _, _)
RunSteps(steps, s, n) ==
    IF n > Len(steps) THEN s
    ELSE RunSteps(steps, ApplyStep(steps[n], s), n + 1)

\* Characters of a text without markup.
PlainChars == {"x", "y", " ", "\n"}

IsPlain(s) == \A k \in DOMAIN s : s[k] \in PlainChars

\* Position of the last '>' of s, 0 if there is none.
LastClose(s) == Greatest({0} \cup {k \in DOMAIN s : s[k] = ">"})

\* The parts of a text "<ref>" body "</ref>" rest with a plain rest.
RefRest(s) == Sub(s, LastClose(s) + 1, Len(s))
RefBody(s) == Sub(s, Len(RefOpen) + 1, LastClose(s) - Len(RefClose))
IsRefWrapped(s) ==
    /\ HasAt(s, 1, RefOpen)
    /\ LastClose(s) >= Len(RefOpen) + Len(RefClose)
    /\ HasAt(s, LastClose(s) - Len(RefClose) + 1, RefClose)
    /\ IsPlain(RefRest(s))

\* C11: cleaning "<ref>" x "</ref>" y with a plain rest y gives the
\* cleaning of y alone, whatever the body x; with x plain too, the
\* pipeline that strips generic tags before references gives the cleaning
\* of x followed by y. "<ref>x</ref>y" gives "y", and "xy" under the
\* swapped order.
C11_RefsBeforeTags ==
    (CleanReturned /\ IsRefWrapped(cin))
        => /\ ctext = clean_text(RefRest(cin))
           /\ IsPlain(RefBody(cin))
                => RunSteps(CleanStepsTagsFirst, cin, 1)
                     = clean_text(RefBody(cin) \o RefRest(cin))
           /\ cin = RefOpen \o <<"x">> \o RefClose \o <<"y">>
                => /\ ctext = <<"y">>
                   /\ RunSteps(CleanStepsTagsFirst, cin, 1) = <<"x", "y">>

\* The cleaner has returned "y" from "<ref>x</ref>y".
C11_Witness ==
    /\ CleanReturned
    /\ cin = RefOpen \o <<"x">> \o RefClose \o <<"y">>
    /\ ctext = <<"y">>

\* The stage called name is being applied in this step.
StageRuns(name) ==
    /\ cstep' = cstep + 1
    /\ cstep < Len(CleanSteps)
    /\ CleanSteps[cstep + 1] = name

\* Leftmost non-greedy removal of '{{' ... '}}': each span runs from a
\* double open brace to the first double close brace after it.
RECURSIVE MinimalSpansRemoved(_, _)
MinimalSpansRemoved(s, i) ==
    LET o == FindStr(s, i, <<"{", "{">>)
        c == IF o = 0 THEN 0 ELSE FindStr(s, o + 2, <<"}", "}">>)
    IN  IF c = 0 THEN Sub(s, i, Len(s))
        ELSE Sub(s, i, o - 1) \o MinimalSpansRemoved(s, c + 2)

\* C12: the template stage turns every text, single braces included,
\* into the text without its minimal '{{' ... '}}' spans, and
\* "{{Infobox|x=1}}" is cleaned to "".
C12_MinimalSpansRemoved ==
    [][/\ StageRuns("templates")
            => ctext' = MinimalSpansRemoved(ctext, 1)
       /\ (cin = TextInfobox /\ cstep' = Len(CleanSteps))
            => ctext' = <<>>]_vars

\* A text in which every bracket belongs to a link span '[[' ... ']]'
\* whose inside holds no ']'.
RECURSIVE WellLinked(_)
WellLinked(s) ==
    LET o == FindChar(s, 1, {"[", "]"})
    IN  IF o = 0 THEN TRUE
        ELSE /\ HasAt(s, o, <<"[", "[">>)
             /\ LET c == FindChar(s, o + 2, {"]"})
                IN  /\ c # 0
                    /\ HasAt(s, c, <<"]", "]">>)
                    /\ WellLinked(Sub(s, c + 2, Len(s)))

\* Such a text with each span replaced by its display, the part after the
\* first '|', or by its target when it has no '|'.
RECURSIVE LinksUnwrapped(_)
LinksUnwrapped(s) ==
    LET o == FindChar(s, 1, {"["})
    IN  IF o = 0 THEN s
        ELSE LET c == FindChar(s, o + 2, {"]"})
                 p == FindChar(s, o + 2, {"|"})
             IN  Sub(s, 1, o - 1)
                 \o (IF p # 0 /\ p < c THEN Sub(s, p + 1, c - 1)
                     ELSE Sub(s, o + 2, c - 1))
                 \o LinksUnwrapped(Sub(s, c + 2, Len(s)))

\* C13: the link stage replaces every span '[[target|display]]' by its
\* display and every span '[[target]]' by its target and leaves the text
\* outside the spans as it is; "[[Cat|Cats]]" gives "Cats" and "[[Dog]]"
\* gives "Dog".
C13_LinksUnwrapped ==
    [][StageRuns("links")
         => /\ WellLinked(ctext) => ctext' = LinksUnwrapped(ctext)
            /\ ctext = TextCat => ctext' = <<"C", "a", "t", "s">>
            /\ ctext = TextDog => ctext' = <<"D", "o", "g">>]_vars

\* The link stage has run on "[[Cat|Cats]] [[Dog]]" and left
\* "Cats Dog".
C13_Witness ==
    /\ cstep = 2
    /\ cin = TextCat \o <<" ">> \o TextDog
    /\ ctext = <<"C", "a", "t", "s", " ", "D", "o", "g">>

\* Characters of cleaned text in the records k, k + 1, ... of an output:
\* the second write of a record is the cleaned text and two newlines.
RECURSIVE CleanedChars(_, _)
CleanedChars(o, k) ==
    IF 2 * k > Len(o) THEN 0
    ELSE Len(o[2 * k]) - 2 + CleanedChars(o, k + 1)

\* The counters agree with the output after every event.
CountersMatchOutput ==
    /\ article_count = Records
    /\ text_size = CleanedChars(out, 1)
    /\ pc # "done" => summary = <<>>

\* C14 as the specification states it: the counters agree with the output
\* after every event and the final summary reports the count and the
\* cumulative size themselves.
C14_SummaryReportsCounters ==
    /\ CountersMatchOutput
    /\ pc = "done" => summary = <<article_count, text_size>>

\* C14 as the code has it: the counters agree with the output after every
\* event; the final summary reports the count, and the size in megabytes
\* rounded to one decimal (52428 bytes print as 0.0, 52429 as 0.1, 262144
\* as 0.2, 1048576 as 1.0).
C14_SummaryReportsMegabytes ==
    /\ CountersMatchOutput
    /\ pc = "done" => summary = <<article_count, MbTenths(text_size)>>
    /\ MbTenths(52428) = 0
    /\ MbTenths(52429) = 1
    /\ MbTenths(262144) = 2
    /\ MbTenths(BytesPerMb) = 10

\* A run ended with two records of 101 cleaned characters each and the
\* summary "2 articles (0.0 MB)".
C14_Witness ==
    /\ pc = "done"
    /\ Records = 2
    /\ text_size = 202
    /\ summary = <<2, 0>>

\* C15: the run ends only when the input is exhausted or with an
\* acceptance that brings the count to the cap; a rejected page and every
\* other event leave it running; once the count has reached the cap the
\* run has ended, normally (files closed, summary printed), and takes no
\* further step.
C15_StopsOnlyAtCap ==
    [][/\ pc # "done"
       /\ (max_articles # 0 /\ article_count' >= max_articles)
            => pc' = "done"
       /\ pc' = "done"
            => /\ closed' /\ summary' # <<>>
               /\ IF PageCloses
                  THEN /\ Writes
                       /\ max_articles # 0
                       /\ article_count' = max_articles
                       /\ article_count = max_articles - 1
                  ELSE docDone /\ out' = out]_vars

\* A run capped at 1 ended, before the end of its input, at the
\* acceptance that followed a rejected page.
C15_Witness ==
    /\ pc = "done"
    /\ closed
    /\ ~docDone
    /\ max_articles = 1
    /\ article_count = 1
    /\ Len(closedLog) = 2

\* The step consumes, inside the loop, the start event of an element.
StartEvent == pc = "loop" /\ Len(stack') = Len(stack) + 1

\* The step consumes, inside the loop, the end event of the top element.
EndEvent ==
    /\ pc = "loop"
    /\ Len(stack) >= 1
    /\ Len(stack') = Len(stack) - 1 \/ (docDone' /\ ~docDone)

\* The element e has the local name name in the document's namespace.
Named(e, name) == e.tag = ns \o name

\* The accumulator, the output and the counters stay as they are.
RecordUntouched ==
    /\ in_page' = in_page
    /\ current_title' = current_title
    /\ current_text' = current_text

SinkUntouched ==
    /\ out' = out
    /\ article_count' = article_count
    /\ text_size' = text_size

\* C16: a start event of an element that is not a page, and an end event
\* of an element that is neither a page, a title nor a text, change
\* neither the accumulator nor the output nor the counters; an End(title)
\* or End(text) outside a page changes none of them either.
C16_OtherEventsIgnored ==
    [][/\ (StartEvent /\ ~Named(Top(stack'), PageTag))
            => RecordUntouched /\ SinkUntouched
       /\ (EndEvent /\ ~Named(Top(stack), PageTag)
                    /\ ~Named(Top(stack), TitleTag)
                    /\ ~Named(Top(stack), TextTag))
            => RecordUntouched /\ SinkUntouched
       /\ (EndEvent /\ ~in_page
                    /\ (Named(Top(stack), TitleTag)
                        \/ Named(Top(stack), TextTag)))
            => RecordUntouched /\ SinkUntouched]_vars

\* The document's root is a title element that held other elements; its
\* end event came outside any page and left the title absent.
C16_Witness ==
    /\ docDone
    /\ Named(stack[1], TitleTag)
    /\ nElems >= 2
    /\ maxPage = 0
    /\ ~in_page
    /\ current_title = None

\* s holds n consecutive characters c somewhere.
HasRun(s, c, n) ==
    \E i \in 1..(Len(s) - n + 1) : \A k \in i..(i + n - 1) : s[k] = c

\* C17: the text clean_text returns holds no two consecutive spaces, no
\* three consecutive newlines, and neither starts nor ends with a space
\* or a newline.
C17_WhitespaceNormalized ==
    CleanReturned
        => /\ ~HasRun(ctext, " ", 2)
           /\ ~HasRun(ctext, "\n", 3)
           /\ ctext # <<>> => /\ ctext[1] \notin {" ", "\n"}
                              /\ ctext[Len(ctext)] \notin {" ", "\n"}

\* The cleaner has returned from a text with three newlines between two
\* letters and left two of them.
C17_Witness ==
    /\ CleanReturned
    /\ cin = <<"x", "\n", "\n", "\n", "x">>
    /\ ctext = <<"x", "\n", "\n", "x">>

\* C18: cleaning A "<ref name=n/>" B "<ref>" c "</ref>" D with plain
\* parts removes the two reference markers and the body c only: the
\* result is the cleaning of A followed by B and D.
C18_OnlyReferencesRemoved ==
    CleanReturned
        => \A a \in MixParts, b \in MixParts, c \in MixParts, d \in MixParts :
              cin = RefMix(a, b, c, d) => ctext = clean_text(a \o b \o d)

\* The candidate at an End(page) is the closing page's own: the page is
\* open and the title is the last one read inside it, or absent.
OwnCandidate ==
    /\ in_page
    /\ current_title = IF pageTitles = <<>> THEN None
                       ELSE pageTitles[Len(pageTitles)]

\* The step writes exactly one record, under the candidate's title.
WritesOneRecord ==
    /\ Len(out') = Len(out) + 2
    /\ Sub(out', 1, Len(out)) = out
    /\ out'[Len(out) + 1] = current_title \o <<"\n">>

C20_EmphasisRemoved ==
    CleanReturned
        => /\ ~HasRun(ctext, "'", 2)
           /\ cin = Rep("'", 5) => ctext = <<>>
           /\ cin = TextBold
                => ctext = <<"B", "o", "l", "d", " ", "t", "e", "x", "t">>

\* The cleaner has returned the empty text from a run of five
\* apostrophes.
C20_Witness ==
    /\ CleanReturned
    /\ cin = Rep("'", 5)
    /\ ctext = <<>>

=============================================================================
